---------------------------- MODULE Spec2Model ----------------------------
(***************************************************************************)
(* Model of the "perspective" visualization generators (wave, sweep,       *)
(* scatter), their shared canvas helpers, and the error-reason             *)
(* classification of the CSV converter.                                    *)
(*                                                                         *)
(* Floating point: every float64 expression the renderers evaluate has     *)
(* integer operands that are far below 2^53, so a quotient that is later   *)
(* truncated by int()/uint8() truncates like the exact rational quotient.  *)
(* The model therefore computes with exact integer arithmetic and          *)
(* truncation toward zero.  int() of NaN or of an infinity is              *)
(* implementation dependent in Go; the variable arch selects the build.    *)
(***************************************************************************)
EXTENDS Integers, Sequences, FiniteSets

VARIABLES
    action,     \* main's action argument: which generator was constructed
    arch,       \* the build: decides int(NaN) and int(+-Inf)
    w, h,       \* canvas width and height
    tA, tOmega, \* time range of the visualization
    yLog2,      \* pixels per doubling of elapsed time
    colors,     \* number of color steps before saturation
    xGrid,      \* number of vertical grid divisions
    vis,        \* the canvas: [pixel coordinate -> color.RGBA]
    x,          \* wave: current x-position (draw cursor)
    p, f,       \* wave: passing / failing event data points
    n,          \* number of Record calls made so far
    e,          \* the event given to the latest Record call
    ePrev,      \* the event given to the Record call before that
    calls,      \* the pixel accesses (getRGBA / plot) of the latest Record call
    errorFilters, \* csv-convert: the compiled error-reason patterns, in order
    params,     \* csv-convert: minTime, maxTime and the three filters
    eventData,  \* csv-convert: the EventData record the row loop fills
    fields,     \* csv-convert: the row read last
    oFile,      \* csv-convert: the records written to the binary log
    rows,       \* csv-convert: number of rows read so far
    filtered,   \* csv-convert: the record eventFilter was last handed
    pc,         \* drawGrid: the statement the construction has reached
    gx, gy,     \* drawGrid: the loop variables x and y
    tick        \* drawGrid: parity of the number of loop passes made

csvVars == <<errorFilters, params, eventData, fields, oFile, rows, filtered>>
gridVars == <<pc, gx, gy, tick>>
visVars == <<w, h, tA, tOmega, yLog2, colors, xGrid, vis, x, p, f, n, e,
             ePrev, calls, pc, gx, gy, tick>>
vars == <<action, arch, w, h, tA, tOmega, yLog2, colors, xGrid,
          vis, x, p, f, n, e, ePrev, calls,
          errorFilters, params, eventData, fields, oFile, rows, filtered,
          pc, gx, gy, tick>>

-----------------------------------------------------------------------------
(* Bounds of the model *)

\* Number of Record calls delivered to one generator.
MaxRecords == 3

\* Number of rows of the CSV input.
MaxRows == 3

\* Width in bits of the model's stand-in for Go's int32 (two's complement).
IntWidth == 8

(* Program constants *)
bg == 33
grid == 45
opaque == 255
saturated == 255
maxC16 == 65535

-----------------------------------------------------------------------------
(* Integer arithmetic as the Go code computes it *)

RECURSIVE Pow(_, _)
Pow(b, k) == IF k = 0 THEN 1 ELSE b * Pow(b, k - 1)

MaxInt == Pow(2, IntWidth - 1) - 1
MinInt == -Pow(2, IntWidth - 1)

\* Two's-complement wrap-around of a sum or difference of int32 values.
Wrap32(a) == ((a - MinInt) % Pow(2, IntWidth)) + MinInt

\* int(a / b) for b > 0: conversion to int truncates toward zero.
TruncDiv(a, b) == IF a >= 0 THEN a \div b ELSE -((-a) \div b)

Min(a, b) == IF a <= b THEN a ELSE b
Max(a, b) == IF a >= b THEN a ELSE b

\* int(l * math.Log2(d)) for integers d >= 1, l >= 0: the largest k with
\* 2^k <= d^l.
RECURSIVE FloorLog2(_, _)
FloorLog2(m, k) == IF Pow(2, k + 1) > m THEN k ELSE FloorLog2(m, k + 1)
IntLog2(l, d) == FloorLog2(Pow(d, l), 0)

\* What int() yields for a value no int64 holds (an infinity) or for NaN.
\* amd64 yields the "integer indefinite" value; arm64 saturates, and maps NaN
\* to 0.  The model's stand-in for the int64 extremes is far outside any
\* canvas.
Far == Pow(2, 2 * IntWidth)
IntOfNaN == IF arch = "amd64" THEN -Far ELSE 0
IntOfNegInf == -Far
\* hh - i in int arithmetic; hh minus the most negative int wraps around to
\* a negative value.
IntSub(hh, i) == IF i = -Far THEN hh - Far ELSE hh - i

-----------------------------------------------------------------------------
(* Canvas helpers *)

RGBA(r, g, b, a) == [R |-> r, G |-> g, B |-> b, A |-> a]

\* image.Rect(0, 0, width, height), as the set of points In() accepts.
Rect(width, height) == (0 .. width - 1) \X (0 .. height - 1)

\* (image.Point{px, py}).In(i.Rect) for a canvas i
In(i, px, py) == <<px, py>> \in DOMAIN i

initializeVisualization(width, height) ==
    [pt \in Rect(width, height) |-> RGBA(bg, bg, bg, opaque)]

\* image.RGBA.Set: ignores a point outside the image.
Set(i, px, py, c) ==
    IF In(i, px, py) THEN [i EXCEPT ![<<px, py>>] = c] ELSE i

drawXGridLine(i, px) ==
    [pt \in DOMAIN i |->
        IF pt[1] = px THEN RGBA(grid, grid, grid, opaque) ELSE i[pt]]

drawYGridLine(i, py) ==
    [pt \in DOMAIN i |->
        IF pt[2] = py THEN RGBA(grid, grid, grid, opaque) ELSE i[pt]]

\* The pointer getRGBA returns: the pixel's coordinate when it is in bounds,
\* otherwise a pointer to a fresh zero pixel that nothing else refers to.
Sink == <<"new">>
getRGBA_PixOffsetOnly(i, px, py) ==
    LET o == py * w + px
    IN  IF 0 <= o /\ o < w * h THEN <<o % w, o \div w>> ELSE Sink
getRGBA(i, px, py) == IF In(i, px, py) THEN <<px, py>> ELSE Sink

\* Reading and writing through such a pointer.
Load(i, c) == IF c = Sink THEN RGBA(0, 0, 0, 0) ELSE i[c]
Store(i, c, px) == IF c = Sink THEN i ELSE [i EXCEPT ![c] = px]

\* uint8(f) for a float f >= 0 that has been truncated to an integer
Uint8(a) == a % 256

\* uint8(math.Min(saturated, float64(c) + 255/k)): one full color step
StepUp_NoClamp(c, k) == Uint8((k * c + saturated) \div k)
StepUp(c, k) == Uint8(Min(saturated, (k * c + saturated) \div k))

\* uint8(math.Min(saturated, float64(c) + (255/k)/4)): a quarter step
QuarterUp(c, k) == Uint8(Min(saturated, (4 * k * c + saturated) \div (4 * k)))

\* The success branch of Record: desaturating blend.
BlendSuccess(px, k) ==
    [px EXCEPT !.R = QuarterUp(px.R, k),
               !.G = QuarterUp(px.G, k),
               !.B = StepUp(px.B, k)]

\* The failure branch of Record: red only.
BlendFailure_Blue(px, k) == [px EXCEPT !.B = StepUp(px.B, k)]
BlendFailure(px, k) == [px EXCEPT !.R = StepUp(px.R, k)]

\* int(float64(v.w) * (t - v.tA) / (v.tOmega - v.tA))
Column(t) ==
    IF tOmega > tA THEN TruncDiv(w * (t - tA), tOmega - tA)
    ELSE -TruncDiv(w * (t - tA), tA - tOmega)

-----------------------------------------------------------------------------
(* Inputs *)

\* EventDataPoint
Event(start, run, status) == [Start |-> start, Run |-> run, Status |-> status]

\* The events delivered: overlapping and disjoint runs, both outcomes, a
\* zero and a negative run, starts before tA and after tOmega, and a run
\* for which Start + Run overflows.
Events ==
    { Event(0, 10, 0), Event(5, 2, 0), Event(2, 4, 1), Event(5, 2, 1),
      Event(10, 0, 1), Event(-3, 1, 0), Event(3, -1, 0), Event(6, 0, 0),
      Event(1, MaxInt, 0) }

NoEvent == Event(0, 0, -1)

\* Command-line flags (main).  run-time-scale is a float64 flag; the model
\* takes whole numbers of pixels per doubling.
Actions == {"vis-scatter", "vis-sweep", "vis-wave"}
Archs == {"amd64", "arm64"}
Widths == {4}
Heights == {4, 5}
MinTimes == {0}
MaxTimes == {8}
YLog2s == {1, 2}
ColorSteps == {1, 3, 256}
XGrids == {0, 2}

-----------------------------------------------------------------------------
(* scatter *)

\* int(v.yLog2 * math.Log2(float64(run)))
ScatterLog(run) ==
    IF run >= 1 THEN IntLog2(yLog2, run)
    ELSE IF run = 0 THEN IntOfNegInf
    ELSE IntOfNaN

scatterPoint(ev) ==
    [x |-> Column(ev.Start), y |-> IntSub(h, ScatterLog(ev.Run))]

scatterRecord(ev) ==
    LET pt == scatterPoint(ev)
        c == getRGBA(vis, pt.x, pt.y)
        px == Load(vis, c)
    IN  /\ action = "vis-scatter"
        /\ n < MaxRecords
        /\ vis' = Store(vis, c, IF ev.Status = 0
                                 THEN BlendSuccess(px, colors)
                                 ELSE BlendFailure(px, colors))
        /\ calls' = <<[x |-> pt.x, y |-> pt.y, row |-> pt.y, t |-> ev.Start]>>
        /\ e' = ev
        /\ ePrev' = e
        /\ n' = n + 1
        /\ UNCHANGED <<action, arch, w, h, tA, tOmega, yLog2, colors, xGrid,
                       x, p, f>>
        /\ UNCHANGED csvVars
        /\ UNCHANGED gridVars

RECURSIVE scatterGridRows(_, _)
scatterGridRows(i, y) ==
    IF y > 0 THEN scatterGridRows(drawYGridLine(i, y), y - TruncDiv(h, yLog2))
    ELSE i

RECURSIVE gridColumns(_, _, _)
gridColumns(i, px, step) ==
    IF px < w THEN gridColumns(drawXGridLine(i, px), px + step, step) ELSE i

scatterDrawGrid(i) ==
    LET a == IF xGrid > 0 THEN gridColumns(i, 0, w \div xGrid) ELSE i
        b == scatterGridRows(a, h)
    IN  drawYGridLine(b, 0)

-----------------------------------------------------------------------------
(* sweep *)

\* The state of a Record call in progress: canvas, y and the pixel accesses.
\* One pass of the loop body for row yP at time t.
sweepPaint(ev, t, yP, st) ==
    LET xx == Column(t)
        yy == IF ev.Status = 0 THEN yP ELSE h - yP
        c == getRGBA(st.vis, xx, yy)
        px == Load(st.vis, c)
    IN  [vis |-> Store(st.vis, c, IF ev.Status = 0
                                   THEN BlendSuccess(px, colors)
                                   ELSE BlendFailure(px, colors)),
         y |-> yP,
         calls |-> Append(st.calls, [x |-> xx, y |-> yy, row |-> yP, t |-> t])]

\* for y' := y; y' > yMin; y'--
RECURSIVE sweepWalk(_, _, _, _, _)
sweepWalk(ev, t, yP, yMin, st) ==
    IF yP > yMin THEN sweepWalk(ev, t, yP - 1, yMin, sweepPaint(ev, t, yP, st))
    ELSE st

sweepYMin(ev, t) == (h \div 2) - IntLog2(yLog2, Max(1, t - ev.Start))

\* for t := tMin; t <= tMax; t++
RECURSIVE sweepLoop(_, _, _)
sweepLoop(ev, t, st) ==
    IF t <= Wrap32(ev.Start + ev.Run)
    THEN sweepLoop(ev, t + 1, sweepWalk(ev, t, st.y, sweepYMin(ev, t), st))
    ELSE st

sweepRecord(ev) ==
    LET st == sweepLoop(ev, ev.Start,
                        [vis |-> vis, y |-> h \div 2, calls |-> <<>>])
    IN  /\ action = "vis-sweep"
        /\ n < MaxRecords
        /\ vis' = st.vis
        /\ calls' = st.calls
        /\ e' = ev
        /\ ePrev' = e
        /\ n' = n + 1
        /\ UNCHANGED <<action, arch, w, h, tA, tOmega, yLog2, colors, xGrid,
                       x, p, f>>
        /\ UNCHANGED csvVars
        /\ UNCHANGED gridVars

RECURSIVE sweepGridRows(_, _)
sweepGridRows(i, y) ==
    IF y < h
    THEN sweepGridRows(drawYGridLine(drawYGridLine(i, y), h - y),
                       y + TruncDiv(h, yLog2))
    ELSE i

sweepDrawGrid(i) ==
    LET a == IF xGrid > 0 THEN gridColumns(i, 0, w \div xGrid) ELSE i
        b == sweepGridRows(a, h \div 2)
    IN  drawYGridLine(b, 0)

-----------------------------------------------------------------------------
(* wave *)

\* uint32(math.Min(maxC16, float64(bg<<8 + maxC16*prog/q))) with
\* prog = float64(a) / float64(b).  A quotient by zero is an infinity or NaN;
\* a negative value converts to 0 on arm64 and to its low 32 bits on amd64
\* (kept here as the negative integer: Chan8 takes the bits it needs).
C16(a, b, q) ==
    IF b = 0 THEN (IF a > 0 THEN maxC16 ELSE 0)
    ELSE LET num == (bg * 256) * (b * q) + maxC16 * a
             val == IF b > 0 THEN TruncDiv(num, b * q)
                    ELSE TruncDiv(-num, -(b * q))
         IN  IF val >= 0 THEN Min(maxC16, val)
             ELSE IF arch = "amd64" THEN val ELSE 0

\* The 8-bit channel of a 16-bit color value
Chan8(c16) == (c16 \div 256) % 256

\* plot paints one pixel of the canvas with the given 16-bit color; a
\* coordinate outside the canvas is ignored.
plot(i, px, py, r16, g16, b16) ==
    Set(i, px, py, RGBA(Chan8(r16), Chan8(g16), Chan8(b16), opaque))

\* The pruning loops of Record: keep what is still running at ev.Start.
StillRunning_Inclusive(r, ev) == Wrap32(r.Start + r.Run) >= ev.Start
StillRunning(r, ev) == Wrap32(r.Start + r.Run) > ev.Start

prune(s, ev) == SelectSeq(s, LAMBDA r : StillRunning(r, ev))

\* The row of the i-th pixel (i = 0, 1, ...) of the passing / failing stack
passRow(i) == (h \div 2) - i
failRow(i) == (h \div 2) + i

\* for i := 0; i < len(v.p); i++ { ... plot(...) }
RECURSIVE wavePassing(_, _, _, _, _)
wavePassing(ev, ps, col, i, st) ==
    IF i < Len(ps)
    THEN LET r == ps[Len(ps) - i]
             a == Wrap32(ev.Start - r.Start)
             b == Wrap32(r.Run + 1)
             rg16 == C16(a, b, 4)
             b16 == C16(a, b, 1)
         IN  wavePassing(ev, ps, col, i + 1,
                 [vis |-> plot(st.vis, col, passRow(i), rg16, rg16, b16),
                  calls |-> Append(st.calls,
                      [x |-> col, y |-> passRow(i), set |-> "p",
                       i |-> i, ev |-> r])])
    ELSE st

RECURSIVE waveFailing(_, _, _, _, _)
waveFailing(ev, fs, col, i, st) ==
    IF i < Len(fs)
    THEN LET r == fs[Len(fs) - i]
             a == Wrap32(ev.Start - r.Start)
             b == Wrap32(r.Run + 1)
             r16 == C16(a, b, 1)
             gb16 == C16(a, b, 4)
         IN  waveFailing(ev, fs, col, i + 1,
                 [vis |-> plot(st.vis, col, failRow(i), r16, gb16, gb16),
                  calls |-> Append(st.calls,
                      [x |-> col, y |-> failRow(i), set |-> "f",
                       i |-> i, ev |-> r])])
    ELSE st

\* for x' > v.x { v.x++ ... }
RECURSIVE waveLoop_CursorFollows(_, _, _, _, _)
waveLoop_CursorFollows(ev, ps, fs, xP, st) ==
    IF xP > st.x
    THEN LET col == st.x + 1
             a == wavePassing(ev, ps, col, 0, [vis |-> st.vis, calls |-> st.calls])
             b == waveFailing(ev, fs, col, 0, a)
         IN  waveLoop_CursorFollows(ev, ps, fs, xP,
                 [x |-> col, vis |-> b.vis, calls |-> b.calls])
    ELSE [st EXCEPT !.x = xP]
RECURSIVE waveLoop(_, _, _, _, _)
waveLoop(ev, ps, fs, xP, st) ==
    IF xP > st.x
    THEN LET col == st.x + 1
             a == wavePassing(ev, ps, col, 0, [vis |-> st.vis, calls |-> st.calls])
             b == waveFailing(ev, fs, col, 0, a)
         IN  waveLoop(ev, ps, fs, xP, [x |-> col, vis |-> b.vis, calls |-> b.calls])
    ELSE st

\* Lines 149-167 of Record: prune both sets, then insert the event.
waveSets_PruneAfterInsert(ev) ==
    [p |-> prune(IF ev.Status = 0 THEN Append(p, ev) ELSE p, ev),
     f |-> prune(IF ev.Status = 0 THEN f ELSE Append(f, ev), ev)]
waveSets(ev) ==
    LET p1 == prune(p, ev)
        f1 == prune(f, ev)
    IN  [p |-> IF ev.Status = 0 THEN Append(p1, ev) ELSE p1,
         f |-> IF ev.Status = 0 THEN f1 ELSE Append(f1, ev)]

waveRecord(ev) ==
    LET s == waveSets(ev)
        st == waveLoop(ev, s.p, s.f, Column(ev.Start),
                       [x |-> x, vis |-> vis, calls |-> <<>>])
    IN  /\ action = "vis-wave"
        /\ n < MaxRecords
        /\ p' = s.p
        /\ f' = s.f
        /\ x' = st.x
        /\ vis' = st.vis
        /\ calls' = st.calls
        /\ e' = ev
        /\ ePrev' = e
        /\ n' = n + 1
        /\ UNCHANGED <<action, arch, w, h, tA, tOmega, yLog2, colors, xGrid>>
        /\ UNCHANGED csvVars
        /\ UNCHANGED gridVars

-----------------------------------------------------------------------------
(* feeds: conversion of CSV input to the binary log *)

\* int8(v): the low 8 bits, two's complement
Int8(v) == ((v + 128) % 256) - 128

\* A pattern is named by a number and an error reason by the set of the
\* patterns that match it: pattern 0 is the implied "^\\s*$".
MatchString(pattern, reason) == pattern \in reason

\* The value of i when the loop
\*   for i = 0; i < len(errorFilters); i++ { if match { return ... } }
\* is left: the least index whose pattern matches, or len(errorFilters).
loopExit(errorReason, filters) ==
    LET hits == {i \in 0 .. Len(filters) - 1 :
                    MatchString(filters[i + 1], errorReason)}
    IN  IF hits = {} THEN Len(filters)
        ELSE CHOOSE i \in hits : \A j \in hits : i <= j

\* Both return statements are "return int8(i + 1)".
getErrorCode(errorReason, filters) ==
    Int8(loopExit(errorReason, filters) + 1)

\* The zero value of perspective.EventData
ZeroEventData ==
    [ID |-> 0, Type |-> 0, Start |-> 0, Run |-> 0, Status |-> 0,
     Region |-> 0, Progress |-> 0]

\* The filter predicate over type, region, status and time range; a
\* negative filter value accepts everything.
eventFilter(ed, minTime, maxTime, typeFilter, regionFilter, statusFilter) ==
    /\ minTime <= ed.Start
    /\ ed.Start <= maxTime
    /\ typeFilter < 0 \/ ed.Type = typeFilter
    /\ regionFilter < 0 \/ ed.Region = regionFilter
    /\ statusFilter < 0 \/ ed.Status = statusFilter

\* A row of the input, its eight fields already split
Row(id, type, start, run, status, region, progress, reason) ==
    [id |-> id, type |-> type, start |-> start, run |-> run,
     status |-> status, region |-> region, progress |-> progress,
     reason |-> reason]

NoFields == Row(0, 0, 0, 0, 0, 0, 0, {})
NoParams == [minTime |-> 0, maxTime |-> 0, typeFilter |-> -1,
             regionFilter |-> -1, statusFilter |-> -1]

\* Error reasons, by the patterns that match them: none, the blank reason,
\* reasons matched by one or by several configured patterns, and reasons
\* matched only by a pattern far down a long list.
Reasons == {{}, {0}, {2}, {1, 2}, {126}, {127}, {254}}

CsvRows ==
    {Row(7, 1, 4, 2, s, 2, 50, r) : s \in {1, 5}, r \in Reasons}
    \cup {Row(8, 1, 5, 3, 0, 2, 100, {0}), Row(9, 1, 6, 1, -1, 3, 10, {0}),
          Row(10, 2, 7, 1, 1, 2, 100, {2}), Row(11, 1, 99, 1, 1, 2, 100, {})}

\* Lengths of the pattern list: the implied pattern alone, a short
\* configuration, and long ones
FilterCounts == {1, 3, 127, 128, 255}

\* One pass of the row loop of ConvertCSVToBinary
convertRow(fs) ==
    LET ed1 == [eventData EXCEPT !.Type = fs.type, !.Start = fs.start]
        ed2 == [ed1 EXCEPT
                  !.ID = fs.id,
                  !.Run = fs.run,
                  !.Status = IF fs.status > 0
                             THEN getErrorCode(fs.reason, errorFilters)
                             ELSE fs.status,
                  !.Region = fs.region,
                  !.Progress = fs.progress]
    IN  /\ action = "csv-convert"
        /\ rows < MaxRows
        /\ rows' = rows + 1
        /\ fields' = fs
        /\ filtered' = ed1
        /\ IF eventFilter(ed1, params.minTime, params.maxTime,
                          params.typeFilter, params.regionFilter,
                          params.statusFilter)
           THEN eventData' = ed2 /\ oFile' = Append(oFile, ed2)
           ELSE eventData' = ed1 /\ oFile' = oFile
        /\ UNCHANGED <<action, arch, errorFilters, params>>
        /\ UNCHANGED visVars

CsvInit ==
    /\ action = "csv-convert"
    /\ arch \in Archs
    /\ \E c \in FilterCounts : errorFilters = [i \in 1 .. c |-> i - 1]
    /\ params \in [minTime : {0}, maxTime : {8}, typeFilter : {-1, 1},
                    regionFilter : {-1, 2}, statusFilter : {-1}]
    /\ eventData = ZeroEventData
    /\ fields = NoFields
    /\ oFile = <<>>
    /\ rows = 0
    /\ filtered = ZeroEventData
    /\ pc = "done" /\ gx = 0 /\ gy = 0 /\ tick = 0
    /\ w = 0 /\ h = 0 /\ tA = 0 /\ tOmega = 0 /\ yLog2 = 0 /\ colors = 0
    /\ xGrid = 0 /\ vis = <<>> /\ x = 0 /\ p = <<>> /\ f = <<>> /\ n = 0
    /\ e = NoEvent /\ ePrev = NoEvent /\ calls = <<>>

CsvNext == \E fs \in CsvRows : convertRow(fs)

CsvSpec == CsvInit /\ [][CsvNext]_vars

-----------------------------------------------------------------------------
(* Construction (main) and the stream of Record calls *)

Init ==
    /\ action \in Actions
    /\ arch \in Archs
    /\ w \in Widths
    /\ h \in Heights
    /\ \E minTime \in MinTimes, maxTime \in MaxTimes :
          \* main hands NewScatter (tOmega, tA) for (minTime, maxTime)
          IF action = "vis-scatter"
          THEN tA = maxTime /\ tOmega = minTime
          ELSE tA = minTime /\ tOmega = maxTime
    /\ IF action = "vis-wave"
       THEN yLog2 = 16 /\ colors = 1 /\ xGrid = 0
       ELSE yLog2 \in YLog2s /\ colors \in ColorSteps /\ xGrid \in XGrids
    /\ vis = CASE action = "vis-scatter" ->
                    scatterDrawGrid(initializeVisualization(w, h))
              [] action = "vis-sweep" ->
                    sweepDrawGrid(initializeVisualization(w, h))
              [] OTHER -> initializeVisualization(w, h)
    /\ x = 0
    /\ p = <<>>
    /\ f = <<>>
    /\ n = 0
    /\ e = NoEvent
    /\ ePrev = NoEvent
    /\ calls = <<>>
    /\ errorFilters = <<>>
    /\ params = NoParams
    /\ eventData = ZeroEventData
    /\ fields = NoFields
    /\ oFile = <<>>
    /\ rows = 0
    /\ filtered = ZeroEventData
    /\ pc = "done" /\ gx = 0 /\ gy = 0 /\ tick = 0

Record == \E ev \in Events : scatterRecord(ev) \/ sweepRecord(ev) \/ waveRecord(ev)

Next == Record

Spec == Init /\ [][Next]_vars

\* Construction of sweep and scatter, statement by statement: drawGrid's
\* loop over the columns, its loop over the rows, and the line on row 0.
GridWidths == {1, 2, 3}
GridHeights == {1, 2, 3}
GridXGrids == {1, 2, 3, 4}
GridYLog2s == {1, 2, 3, 4}

GridInit ==
    /\ action \in {"vis-scatter", "vis-sweep"}
    /\ arch \in Archs
    /\ w \in GridWidths
    /\ h \in GridHeights
    /\ tA \in MinTimes
    /\ tOmega \in MaxTimes
    /\ yLog2 \in GridYLog2s
    /\ colors = 1
    /\ xGrid \in GridXGrids
    /\ vis = initializeVisualization(w, h)
    /\ pc = "columns" /\ gx = 0 /\ gy = 0 /\ tick = 0
    /\ x = 0
    /\ p = <<>>
    /\ f = <<>>
    /\ n = 0
    /\ e = NoEvent
    /\ ePrev = NoEvent
    /\ calls = <<>>
    /\ errorFilters = <<>>
    /\ params = NoParams
    /\ eventData = ZeroEventData
    /\ fields = NoFields
    /\ oFile = <<>>
    /\ rows = 0
    /\ filtered = ZeroEventData

gridFrame ==
    UNCHANGED <<action, arch, w, h, tA, tOmega, yLog2, colors, xGrid,
                x, p, f, n, e, ePrev, calls>> /\ UNCHANGED csvVars

\* if xGrid > 0 { for x := 0; x < v.w; x += v.w / xGrid { ... } }
gridColumnPass ==
    /\ pc = "columns"
    /\ xGrid > 0 /\ gx < w
    /\ vis' = drawXGridLine(vis, gx)
    /\ gx' = gx + (w \div xGrid)
    /\ tick' = 1 - tick
    /\ UNCHANGED <<pc, gy>>
    /\ gridFrame

gridColumnsDone ==
    /\ pc = "columns"
    /\ ~(xGrid > 0 /\ gx < w)
    /\ pc' = "rows"
    /\ gy' = IF action = "vis-scatter" THEN h ELSE h \div 2
    /\ UNCHANGED <<vis, gx, tick>>
    /\ gridFrame

\* scatter: for y := v.h; y > 0; y -= int(float64(v.h) / v.yLog2) { ... }
scatterGridRowPass ==
    /\ pc = "rows"
    /\ action = "vis-scatter"
    /\ gy > 0
    /\ vis' = drawYGridLine(vis, gy)
    /\ gy' = gy - TruncDiv(h, yLog2)
    /\ tick' = 1 - tick
    /\ UNCHANGED <<pc, gx>>
    /\ gridFrame

\* sweep: for y := v.h / 2; y < v.h; y = y + int(float64(v.h)/v.yLog2) { ... }
sweepGridRowPass ==
    /\ pc = "rows"
    /\ action = "vis-sweep"
    /\ gy < h
    /\ vis' = drawYGridLine(drawYGridLine(vis, gy), h - gy)
    /\ gy' = gy + TruncDiv(h, yLog2)
    /\ tick' = 1 - tick
    /\ UNCHANGED <<pc, gx>>
    /\ gridFrame

gridRowsDone ==
    /\ pc = "rows"
    /\ IF action = "vis-scatter" THEN ~(gy > 0) ELSE ~(gy < h)
    /\ pc' = "top"
    /\ UNCHANGED <<vis, gx, gy, tick>>
    /\ gridFrame

\* drawYGridLine(v.vis, 0), and return
gridTop ==
    /\ pc = "top"
    /\ vis' = drawYGridLine(vis, 0)
    /\ pc' = "done"
    /\ UNCHANGED <<gx, gy, tick>>
    /\ gridFrame

GridNext ==
    \/ gridColumnPass
    \/ gridColumnsDone
    \/ scatterGridRowPass
    \/ sweepGridRowPass
    \/ gridRowsDone
    \/ gridTop

\* A running constructor always executes its next statement.
GridSpec == GridInit /\ [][GridNext]_vars /\ WF_vars(GridNext)

\* NewSweep and NewScatter called with (minTime, maxTime) in that order, and
\* events whose times lie around both ends of the time range.
RangeEvents ==
    { Event(-3, 2, 0), Event(-1, 2, 1), Event(-5, 1, 0), Event(7, 4, 0),
      Event(2, 2, 1) }

RangeInit ==
    /\ action \in {"vis-scatter", "vis-sweep"}
    /\ arch \in Archs
    /\ w \in Widths
    /\ h \in Heights
    /\ tA \in MinTimes
    /\ tOmega \in MaxTimes
    /\ yLog2 \in YLog2s
    /\ colors \in ColorSteps
    /\ xGrid \in XGrids
    /\ vis = IF action = "vis-scatter"
             THEN scatterDrawGrid(initializeVisualization(w, h))
             ELSE sweepDrawGrid(initializeVisualization(w, h))
    /\ x = 0
    /\ p = <<>>
    /\ f = <<>>
    /\ n = 0
    /\ e = NoEvent
    /\ ePrev = NoEvent
    /\ calls = <<>>
    /\ errorFilters = <<>>
    /\ params = NoParams
    /\ eventData = ZeroEventData
    /\ fields = NoFields
    /\ oFile = <<>>
    /\ rows = 0
    /\ filtered = ZeroEventData
    /\ pc = "done" /\ gx = 0 /\ gy = 0 /\ tick = 0

RangeNext == \E ev \in RangeEvents : scatterRecord(ev) \/ sweepRecord(ev)

RangeSpec == RangeInit /\ [][RangeNext]_vars

-----------------------------------------------------------------------------
(* Claims *)

Blends == action \in {"vis-sweep", "vis-scatter"}

\* Some pixel access of the Record call just made names the point pt.
MappedTo(cs, pt) == \E k \in 1 .. Len(cs) : cs[k].x = pt[1] /\ cs[k].y = pt[2]

\* C1: in sweep and scatter a Record call leaves the canvas the size it was
\* made with and changes only pixels inside it that one of the call's computed
\* coordinates names; a coordinate outside the canvas changes nothing.
C1_OnlyMappedPixelsChange ==
    [][Blends =>
          /\ DOMAIN vis' = Rect(w, h)
          /\ \A pt \in Rect(w, h) :
                vis'[pt] # vis[pt] => MappedTo(calls', pt)
          /\ (\A k \in 1 .. Len(calls') : ~In(vis, calls'[k].x, calls'[k].y))
                => vis' = vis]_vars

\* C1 witness: a Record call was made whose coordinates were out of bounds:
\* a negative one, one past the width or height, and the NaN case.
C1_Witness ==
    /\ Blends
    /\ n = MaxRecords
    /\ calls # <<>>
    /\ \E k \in 1 .. Len(calls) :
          /\ ~In(vis, calls[k].x, calls[k].y)
          /\ (calls[k].y < 0 \/ calls[k].x >= w \/ calls[k].y >= h)

Channels(px) == {px.R, px.G, px.B}
InRange(px) == Channels(px) \subseteq 0 .. saturated /\ px.A = opaque

\* C2: in sweep and scatter with a positive color-step count every channel of
\* every pixel is within 0..255 after any number of Record calls, and no
\* Record call lowers a channel.
C2_ChannelsSaturate ==
    /\ \A pt \in DOMAIN vis : InRange(vis[pt])
    /\ [][(Blends /\ colors > 0) =>
             \A pt \in DOMAIN vis :
                /\ InRange(vis'[pt])
                /\ vis'[pt].R >= vis[pt].R
                /\ vis'[pt].G >= vis[pt].G
                /\ vis'[pt].B >= vis[pt].B]_vars

\* C2 witness: a pixel has reached saturation in its blue and red channels
\* after being blended again at the clamp.
C2_Witness ==
    /\ Blends
    /\ colors > 0
    /\ n >= 2
    /\ \E pt \in DOMAIN vis : vis[pt].B = saturated /\ vis[pt].R = saturated

Wave == action = "vis-wave"

Range(s) == {s[k] : k \in 1 .. Len(s)}

\* An event's end time as the claim writes it, and as Record computes it
EndTime(r) == r.Start + r.Run
EndTime32(r) == Wrap32(r.Start + r.Run)

\* The part of a set that was there before the event of this call was added
Older(s, ev, mine) == IF mine THEN SubSeq(s, 1, Len(s) - 1) ELSE s

\* C3 as stated: after Record(e) no set holds an event that ended at or
\* before e.Start, and every event that ends after e.Start is still there.
C3_Original ==
    [][Wave =>
          /\ \A r \in Range(p') \cup Range(f') : ~(EndTime(r) <= e'.Start)
          /\ \A r \in Range(p) : EndTime(r) > e'.Start => r \in Range(p')
          /\ \A r \in Range(f) : EndTime(r) > e'.Start => r \in Range(f')]_vars

\* C3 amended: after Record(e) the sets hold, in their old order, exactly
\* the events they held before whose end time (Start + Run as Record adds
\* them, in 32-bit wrap-around arithmetic) is greater than e.Start, followed
\* by e itself in the set of its status, whatever e.Run is.
C3_Eviction ==
    [][Wave =>
          /\ Older(p', e', e'.Status = 0)
                = SelectSeq(p, LAMBDA r : EndTime32(r) > e'.Start)
          /\ Older(f', e', e'.Status # 0)
                = SelectSeq(f, LAMBDA r : EndTime32(r) > e'.Start)
          /\ \A r \in Range(Older(p', e', e'.Status = 0))
                   \cup Range(Older(f', e', e'.Status # 0)) :
                ~(EndTime32(r) <= e'.Start)]_vars

\* C3 witness: a Record call has both kept an older event and dropped one,
\* and the event it added has itself ended by its own start.
C3_Witness ==
    /\ Wave
    /\ n = MaxRecords
    /\ Len(p) + Len(f) = 2
    /\ EndTime(e) <= e.Start

\* What Record(ev) would leave behind in the current state
waveAfter(ev) ==
    LET s == waveSets(ev)
    IN  [p |-> s.p, f |-> s.f,
         st |-> waveLoop(ev, s.p, s.f, Column(ev.Start),
                         [x |-> x, vis |-> vis, calls |-> <<>>])]

\* C6: whatever the order of the starts, Record runs to its end for every
\* event in every state, and after it the event is the last element of the
\* set of its status and is not in the other set.
C6_InsertedLast ==
    Wave =>
      /\ \A ev \in Events :
            LET r == waveAfter(ev)
            IN  /\ DOMAIN r.st.vis = Rect(w, h)
                /\ r.st.x \in Int
                /\ IF ev.Status = 0
                   THEN r.p # <<>> /\ r.p[Len(r.p)] = ev /\ ev \notin Range(r.f)
                   ELSE r.f # <<>> /\ r.f[Len(r.f)] = ev /\ ev \notin Range(r.p)
      /\ n > 0 =>
            IF e.Status = 0
            THEN p # <<>> /\ p[Len(p)] = e /\ e \notin Range(f)
            ELSE f # <<>> /\ f[Len(f)] = e /\ e \notin Range(p)

\* C6 witness: an event with a zero run was recorded after one that starts
\* later, which it leaves in place.
C6_Witness ==
    /\ Wave
    /\ n >= 2
    /\ e.Run <= 0
    /\ \E r \in Range(p) \cup Range(f) : r.Start > e.Start

\* C9 as stated: in a painted column every active event gets one pixel,
\* passing events from the centre line upward, failing events from it
\* downward, and no pixel is painted for both a passing and a failing event.
C9_Original ==
    Wave =>
      \A j, k \in 1 .. Len(calls) :
         /\ calls[k].y = IF calls[k].set = "p" THEN (h \div 2) - calls[k].i
                                               ELSE (h \div 2) + calls[k].i
         /\ (calls[j].set = "p" /\ calls[k].set = "f")
               => <<calls[j].x, calls[j].y>> # <<calls[k].x, calls[k].y>>

\* The columns of the painting steps of the latest Record call, in order
RECURSIVE Columns(_)
Columns(cs) ==
    IF cs = <<>> THEN <<>>
    ELSE LET rest == Columns(Tail(cs))
         IN  IF rest # <<>> /\ rest[1] = cs[1].x THEN rest
             ELSE <<cs[1].x>> \o rest

\* C10: the cursor starts at 0; Record(e) leaves it at the larger of its old
\* value and the column of e, having painted the columns in between one by
\* one, each exactly once, and nothing when the column of e is not beyond
\* the cursor; so no column is painted by two Record calls.
C10_Cursor ==
    /\ (Wave /\ n = 0) => x = 0
    /\ [][Wave =>
             LET xP == Column(e'.Start)
                 cols == Columns(calls')
             IN  /\ x' = Max(x, xP)
                 /\ x' >= x
                 /\ Len(cols) = x' - x
                 /\ \A k \in 1 .. Len(cols) : cols[k] = x + k
                 /\ xP <= x => (calls' = <<>> /\ vis' = vis)]_vars

\* C10 witness: a Record call whose column lies behind the cursor, after a
\* call that advanced the cursor by more than one column.
C10_Witness ==
    /\ Wave
    /\ n >= 2
    /\ x >= 2
    /\ Column(e.Start) < x
    /\ calls = <<>>

\* The channel that carries an event's outcome: blue for a success, red for
\* a failure
Primary(px, status) == IF status = 0 THEN px.B ELSE px.R

\* The step records the same event as the call before it.
Repeats == n >= 1 /\ n' = n + 1 /\ e' = e

\* The pixels of the canvas that the first of the two calls plotted for e
Targets ==
    {<<calls[k].x, calls[k].y>> : k \in
        {k \in 1 .. Len(calls) :
            /\ In(vis, calls[k].x, calls[k].y)
            /\ Wave => calls[k].ev = e}}

\* C4 as stated: recording an event a second time leaves each of its pixels
\* on the canvas strictly higher in the channel of its outcome.
C4_Original ==
    [][Repeats =>
          \A pt \in Targets :
             Primary(vis'[pt], e.Status) > Primary(vis[pt], e.Status)]_vars

\* C4 amended: in sweep and scatter the second of two identical events maps
\* to the same pixels and raises the channel of its outcome at each of them
\* that is on the canvas, strictly when that channel was below 255 and the
\* color-step count is at most 255, and leaves it as it was otherwise; in
\* wave the second event paints nothing.
C4_SecondEvent ==
    [][Repeats =>
          IF Wave THEN calls' = <<>> /\ vis' = vis
          ELSE /\ calls' = calls
               /\ \A pt \in Targets :
                     LET a == Primary(vis[pt], e.Status)
                         b == Primary(vis'[pt], e.Status)
                     IN  IF a < saturated /\ colors <= saturated
                         THEN b > a ELSE b = a]_vars

\* C4 witness: the same event was recorded twice in a row, and one of its
\* pixels had already reached 255 when the second was recorded while
\* another had not.
C4_Witness ==
    /\ Blends
    /\ n >= 2
    /\ e = ePrev
    /\ colors = 3
    /\ \E pt, qt \in Targets :
          /\ Primary(vis[pt], e.Status) = saturated
          /\ Primary(vis[qt], e.Status) < saturated

Sweeps == action = "vis-sweep"

\* The pixels of the canvas that sweep's Record can paint for an event with
\* the given status
PaintedBy(status) ==
    UNION { LET cs == sweepLoop(Event(ev.Start, ev.Run, status), ev.Start,
                        [vis |-> vis, y |-> h \div 2, calls |-> <<>>]).calls
            IN  {<<cs[k].x, cs[k].y>> : k \in 1 .. Len(cs)} \cap Rect(w, h)
          : ev \in Events }

\* C5 as stated: in sweep, for every height, a failure event changes no
\* pixel a success event can paint, and a success event none that a
\* failure event can paint.
C5_Original ==
    [][Sweeps =>
          \A pt \in Rect(w, h) :
             vis'[pt] # vis[pt] =>
                pt \notin PaintedBy(IF e'.Status = 0 THEN 1 ELSE 0)]_vars

\* C8 as stated: within one Record call of sweep the row never increases,
\* and no row is painted at two different time steps.
C8_Original ==
    Sweeps =>
      \A j, k \in 1 .. Len(calls) :
         j < k =>
            /\ calls[k].row <= calls[j].row
            /\ calls[j].t # calls[k].t => calls[j].row # calls[k].row

\* The code the claim gives a reason: k + 1 when the pattern at position k
\* matches and none before it does, one more than the number of patterns
\* when none matches
FirstMatchCode(reason, filters) ==
    IF \E k \in 1 .. Len(filters) : MatchString(filters[k], reason)
    THEN CHOOSE c \in 1 .. Len(filters) :
            /\ MatchString(filters[c], reason)
            /\ \A j \in 1 .. c - 1 : ~MatchString(filters[j], reason)
    ELSE Len(filters) + 1

\* C7 as stated: a row with a positive exit status is written with the
\* status FirstMatchCode gives its reason, and that status is positive.
C7_Original ==
    (action = "csv-convert" /\ rows > 0 /\ fields.status > 0
        /\ oFile # <<>> /\ oFile[Len(oFile)] = eventData
        /\ eventData.ID = fields.id) =>
      /\ eventData.Status = FirstMatchCode(fields.reason, errorFilters)
      /\ eventData.Status > 0


\* C11 as stated, for the points that land on the canvas: with tA < tOmega
\* every point sweep and scatter paint for a time t lies in the column
\* floor(w * (t - tA) / (tOmega - tA)), and no time before tA is painted.
C11_Original ==
    (Blends /\ tA < tOmega) =>
      \A k \in 1 .. Len(calls) :
         In(vis, calls[k].x, calls[k].y) =>
            /\ calls[k].x = (w * (calls[k].t - tA)) \div (tOmega - tA)
            /\ calls[k].t >= tA

\* The rows of the canvas that are grid lines from edge to edge
GridRows ==
    {row \in 0 .. h - 1 :
        \A col \in 0 .. w - 1 :
           vis[<<col, row>>] = RGBA(grid, grid, grid, opaque)}

\* The rows to which Record maps an elapsed (sweep) or run (scatter) time of
\* 2^k seconds, sweep's mirrored below the centre line
DoublingRows ==
    IF Sweeps
    THEN UNION {{sweepYMin(Event(0, 0, 0), Pow(2, k)),
                 h - sweepYMin(Event(0, 0, 0), Pow(2, k))} : k \in 0 .. h}
    ELSE {IntSub(h, ScatterLog(Pow(2, k))) : k \in 0 .. h}

\* C12 as stated: after construction the horizontal grid lines of sweep and
\* scatter are the rows of the doublings that lie on the canvas, and row 0.
C12_Original ==
    (Blends /\ n = 0) =>
      GridRows = (DoublingRows \cup {0}) \cap (0 .. h - 1)

\* C13 as stated: construction of a sweep or scatter generator comes to its
\* end for every width, height, xGrid > 0 and yLog2 > 0.
C13_Original == <>(pc = "done")

\* C14 as stated: when the event filter is evaluated for a row, the type,
\* start, region and status of the record it is given are the values
\* parsed from that same row.
C14_Original ==
    (action = "csv-convert" /\ rows > 0) =>
        /\ filtered.Type = fields.type
        /\ filtered.Start = fields.start
        /\ filtered.Region = fields.region
        /\ filtered.Status = IF fields.status > 0
                             THEN getErrorCode(fields.reason, errorFilters)
                             ELSE fields.status

=============================================================================
